---- MODULE Spec2Model ----
(***************************************************************************)
(* Library-loan service (src/index.py): the three tables users, books and  *)
(* loans, and the six request handlers register, login, read_books,        *)
(* create_loan, read_loans and return_loan.                                *)
(*                                                                         *)
(* Every request runs in its own SQLAlchemy session (Depends(SessionLocal),*)
(* autocommit=False, autoflush=False): what a handler changes on its       *)
(* objects reaches the shared store only at db.commit().  A request that   *)
(* writes is therefore two steps, the code up to the commit and the commit *)
(* itself, and steps of different sessions interleave freely.              *)
(*                                                                         *)
(* The store is the persistent database named by DATABASE_URL;             *)
(* create_all (line 43) only adds missing tables and no handler inserts a  *)
(* book, so the rows the process finds at start-up are input.  Init draws  *)
(* them from the stores that satisfy the schema (primary keys, unique      *)
(* username, foreign keys) and the ledger rule of the data model (a book   *)
(* is available iff it has no open loan, at most one open loan per book).  *)
(***************************************************************************)
EXTENDS Integers, Sequences, FiniteSets, TLC

\* ---- bounds ----
NumBooks == 1          \* books in the catalogue, ids 1..NumBooks
MaxSeedLoans == 2      \* loans already in the store at start-up
MaxLoans == 3          \* no loan is inserted beyond this many rows
MaxDay == 1            \* datetime.date.today() ranges over 0..MaxDay

Usernames == {"alice", "bob"}
Passwords == {"pw1", "pw2"}
Salts == {"saltA"}
Sessions == {"s1", "s2"}

\* Bearer tokens a client may present: get_current_user reads the token
\* text as a username, so any string is a candidate.
Tokens == Usernames \cup {"dummy_token"}

\* Python's None, and a datetime.date; a nullable Date column holds either.
None == <<>>
Date(d) == <<d>>

\* The date of every start-up loan (and of its return, if returned): the
\* day the model starts on.
SeedDate == Date(0)

\* ---- password hashing (lines 73-77) ----
\* bcrypt: a fresh salt per hash, verification recomputes under that salt.
get_password_hash(password, salt) == [salt |-> salt, digest |-> password]

verify_password(plain_password, hashed_password) ==
    get_password_hash(plain_password, hashed_password.salt) = hashed_password

\* ---- rows (lines 22-41) ----
User(id, username, password_hash) ==
    [id |-> id, username |-> username, password_hash |-> password_hash]

Book(id, available) ==
    [id |-> id, title |-> "Dune", author |-> "Herbert", available |-> available]

Loan(id, user_id, book_id, loan_date, return_date) ==
    [id |-> id, user_id |-> user_id, book_id |-> book_id,
     loan_date |-> loan_date, return_date |-> return_date]

\* The request body of POST /loans (lines 64-68).
LoanBase(user_id, book_id, loan_date, return_date) ==
    [user_id |-> user_id, book_id |-> book_id,
     loan_date |-> loan_date, return_date |-> return_date]

VARIABLES
    users,      \* table users
    books,      \* table books
    loans,      \* table loans
    today,      \* the value of datetime.date.today()
    txn,        \* the requests in flight, in order of arrival, each with the
                \* uncommitted work of its session
    resp        \* the response just sent: that of the request that finished last,
                \* until a session takes its next step into a handler

vars == <<users, books, loans, today, txn, resp>>

\* ---- small helpers over tables ----
\* A table is the sequence of its rows in primary-key order: no handler
\* deletes a row and an INSERT takes the next auto-increment id, so the row
\* with id i is the i-th row.
NextId(table) == Len(table) + 1

\* Variant of Insert: the new row replaces the table's rows.
Insert_Replace(table, row) == <<row>>

Insert(table, row) == Append(table, row)

\* .offset(skip).limit(limit) on a sequence of rows.
OffsetLimit(rows, skip, limit) ==
    SubSeq(rows, skip + 1, IF skip + limit < Len(rows) THEN skip + limit ELSE Len(rows))

OpenLoans(b) == {l \in DOMAIN loans : loans[l].book_id = b /\ loans[l].return_date = None}

\* ---- queries ----
\* db.query(T).filter(P).all() is SelectSeq(T, P): the rows of the table
\* that satisfy P, in primary-key order.

\* .first(): <<>> for Python's None, else <<row>>.
first(rows) == OffsetLimit(rows, 0, 1)

\* lines 79-80
get_user(username) == first(SelectSeq(users, LAMBDA u : u.username = username))

\* lines 82-86; False is <<>>
authenticate_user(username, password) ==
    LET user == get_user(username)
    IN IF user = <<>> \/ ~verify_password(password, user[1].password_hash)
       THEN <<>> ELSE user

\* lines 88-89
create_access_token(data) == "dummy_token"

\* Variant of get_current_user: line 95 does not raise, and a user object
\* without a row in the store goes on to the handler.
get_current_user_NoRaise(token) ==
    LET user == get_user(token)
    IN IF user = <<>> THEN <<User(0, token, get_password_hash("", "saltA"))>> ELSE user

\* lines 91-96: the token text is looked up as a username; <<>> stands for
\* the 401 raised when no such user exists.
get_current_user(token) == LET username == token IN get_user(username)

\* Variant of AvailableBook: the filter on Book.available is missing.
AvailableBook_AnyFlag(book_id) == first(SelectSeq(books, LAMBDA b : b.id = book_id))

\* line 125
AvailableBook(book_id) ==
    first(SelectSeq(books, LAMBDA b : b.id = book_id /\ b.available = TRUE))

\* Variant of LoanCtor: loan_date is passed once, as if the call read
\* Loan(user_id=..., book_id=..., return_date=..., loan_date=today).
LoanCtor_SingleLoanDate(loan, loan_date) ==
    <<Loan(0, loan.user_id, loan.book_id, loan_date, loan.return_date)>>

\* line 128: Loan(**loan.dict(), loan_date=datetime.date.today()).
\* loan.dict() holds every field of LoanBase, loan_date among them, so the
\* call passes the keyword loan_date twice and Python raises TypeError
\* before any Loan object exists.  <<>> stands for the raised TypeError,
\* <<row>> for a constructed (not yet inserted, id-less) Loan.
LoanCtor(loan, loan_date) ==
    LET kwargs == {"user_id", "book_id", "loan_date", "return_date"}   \* loan.dict()
        extra == {"loan_date"}
    IN IF kwargs \cap extra # {} THEN <<>>
       ELSE <<Loan(0, loan.user_id, loan.book_id, loan_date, loan.return_date)>>

\* Variant of LoansOf: the filter on Loan.user_id is missing.
LoansOf_Everyone(user_id, skip, limit) ==
    OffsetLimit(SelectSeq(loans, LAMBDA l : TRUE), skip, limit)

\* line 137
LoansOf(user_id, skip, limit) ==
    OffsetLimit(SelectSeq(loans, LAMBDA l : l.user_id = user_id), skip, limit)

\* Variant of OwnLoan: the filter on Loan.user_id is missing.
OwnLoan_AnyBorrower(loan_id, user_id) ==
    first(SelectSeq(loans, LAMBDA l : l.id = loan_id))

\* Variant of OwnLoan: only a loan that is still open is found.
OwnLoan_OpenOnly(loan_id, user_id) ==
    first(SelectSeq(loans, LAMBDA l : /\ l.id = loan_id /\ l.user_id = user_id
                                      /\ l.return_date = None))

\* line 142
OwnLoan(loan_id, user_id) ==
    first(SelectSeq(loans, LAMBDA l : l.id = loan_id /\ l.user_id = user_id))

\* line 146
BookById(book_id) == first(SelectSeq(books, LAMBDA b : b.id = book_id))

\* ---- responses ----
\* What a handler hands back: a raised HTTPException (status, detail), an
\* uncaught exception (500), or its return value (200, body: a sequence of
\* rows).  caller is the id of the authenticated user (0: none).  arg is
\* what the request named: a book id (create_loan), a loan id
\* (return_loan), a username (register), the bearer token of a request that
\* was refused with 401, else 0.  saw records what the request read from
\* the store: for a create_loan that got past authentication, "available"
\* if line 125 found the book with its flag true and "unavailable"
\* otherwise; for a return_loan that found its loan (line 142), "open" if
\* the loan's return date was null and "returned" otherwise.
Response(op, caller, arg, status, detail, body, saw) ==
    [op |-> op, caller |-> caller, arg |-> arg,
     status |-> status, detail |-> detail, body |-> body, saw |-> saw]

NoResponse == Response("none", 0, 0, 0, "", <<>>, "")

\* get_current_user raises before the handler body is entered.
Unauthorized(op, token) ==
    Response(op, 0, token, 401, "Invalid authentication credentials", <<>>, "")

\* Depends(SessionLocal) opens a session for each request; a request can
\* start while the pool has a session to spare.
FreeSession == Len(txn) < Cardinality(Sessions)

Remove(seq, i) == SubSeq(seq, 1, i - 1) \o SubSeq(seq, i + 1, Len(seq))

\* A request ends with response r before it has staged any write.
Answer(r) == /\ FreeSession
             /\ resp' = r
             /\ txn' = txn

\* A request goes on to its commit with the uncommitted work t.
Stage(t) == /\ FreeSession
            /\ txn' = Append(txn, t)
            /\ resp' = NoResponse

\* The i-th request in flight ends with response r.
Reply(i, r) == /\ resp' = r
               /\ txn' = Remove(txn, i)

\* ---- the store at start-up ----
\* Either nobody has registered yet, or every username has.
SeedUsers == {<<>>, <<<<"alice", "pw1", "saltA">>, <<"bob", "pw2", "saltA">>>>}

\* Loans <<user_id, book_id, return_date>> in the order they were made: a
\* book is lent again only once its previous loan was returned, so an open
\* loan is the last loan of its book.  Users and books are interchangeable,
\* so the first loan is taken to be user 1's, of book 1.
SeedLoans(k) ==
    UNION {{l \in [1..n -> (1..k) \X (1..NumBooks) \X {None, SeedDate}] :
               /\ \A i, j \in 1..n : (l[i][2] = l[j][2] /\ l[i][3] = None) => j <= i
               /\ n > 0 => (l[1][1] = 1 /\ l[1][2] = 1)}
           : n \in 0..MaxSeedLoans}

Init ==
    /\ \E u \in SeedUsers :
         /\ users = [i \in DOMAIN u |->
                        User(i, u[i][1], get_password_hash(u[i][2], u[i][3]))]
         /\ \E l \in SeedLoans(Len(u)) :
              /\ loans = [i \in DOMAIN l |-> Loan(i, l[i][1], l[i][2], SeedDate, l[i][3])]
              /\ books = [b \in 1..NumBooks |->
                             Book(b, \A i \in DOMAIN l : ~(l[i][2] = b /\ l[i][3] = None))]
    /\ today = SeedDate[1]
    /\ txn = <<>>
    /\ resp = NoResponse

\* ---- POST /register, lines 98-105 ----
\* Variant of register: the lookup of lines 100-102 is missing.
register_NoLookup(username, password, salt) ==
    /\ Stage([op |-> "register",
               db_user |-> User(0, username, get_password_hash(password, salt))])
    /\ UNCHANGED <<users, books, loans, today>>

register(username, password, salt) ==
    /\ LET db_user == get_user(username) IN
       IF db_user # <<>>
       THEN Answer(Response("register", 0, username, 400, "Username already registered",
                            <<>>, ""))
       ELSE Stage([op |-> "register",
                   db_user |-> User(0, username, get_password_hash(password, salt))])
    /\ UNCHANGED <<users, books, loans, today>>

\* ---- POST /token, lines 110-116 ----
login(username, password) ==
    /\ LET user == authenticate_user(username, password) IN
       IF user = <<>>
       THEN Answer(Response("login", 0, 0, 400, "Incorrect username or password", <<>>, ""))
       ELSE Answer(Response("login", user[1].id, 0, 200, "",
                      <<[access_token |-> create_access_token([sub |-> user[1].username]),
                         token_type |-> "bearer"]>>, ""))
    /\ UNCHANGED <<users, books, loans, today>>

\* ---- GET /books, lines 118-121 ----
read_books(skip, limit) ==
    /\ Answer(Response("read_books", 0, 0, 200, "",
                  OffsetLimit(SelectSeq(books, LAMBDA b : TRUE), skip, limit), ""))
    /\ UNCHANGED <<users, books, loans, today>>

\* ---- GET /loans, lines 135-138 ----
read_loans(token, skip, limit) ==
    /\ LET current_user == get_current_user(token) IN
       IF current_user = <<>>
       THEN Answer(Unauthorized("read_loans", token))
       ELSE Answer(Response("read_loans", current_user[1].id, 0, 200, "",
                      LoansOf(current_user[1].id, skip, limit), ""))
    /\ UNCHANGED <<users, books, loans, today>>

\* An assignment to an attribute of a loaded object (lines 130, 145, 147)
\* is pending in the session only if the value differs from the loaded one:
\* <<value>> if it does, <<>> if it does not.
Changed(loaded, value) == IF loaded # value THEN <<value>> ELSE <<>>

\* ---- POST /loans, lines 123-130 ----
\* Line 125 is the request's only read of the store and lines 126-130 touch
\* nothing but the session's own objects, so the code up to the commit is
\* one step.  Two requests that overlap in time appear as two such steps one
\* after the other.
Saw(book_id) ==
    IF book_id \in DOMAIN books /\ books[book_id].available
    THEN "available" ELSE "unavailable"

create_loan(token, loan) ==
    /\ LET current_user == get_current_user(token) IN
       IF current_user = <<>>
       THEN Answer(Unauthorized("create_loan", token))
       ELSE LET book == AvailableBook(loan.book_id) IN
            IF book = <<>>
            THEN Answer(Response("create_loan", current_user[1].id, loan.book_id,
                                 400, "Book not available", <<>>, Saw(loan.book_id)))
            ELSE LET db_loan == LoanCtor(loan, Date(today)) IN
                 IF db_loan = <<>>
                 THEN Answer(Response("create_loan", current_user[1].id, loan.book_id,
                                      500, "TypeError", <<>>, Saw(loan.book_id)))
                 ELSE /\ Len(loans) < MaxLoans
                      /\ Stage([op |-> "create_loan",
                                current_user |-> current_user[1].id,
                                db_loan |-> db_loan[1],
                                book |-> book[1].id,
                                available |-> Changed(book[1].available, FALSE),
                                saw |-> Saw(loan.book_id)])
    /\ UNCHANGED <<users, books, loans, today>>

\* ---- POST /loans/{loan_id}/return, lines 140-147 ----
return_loan(token, loan_id) ==
    /\ LET current_user == get_current_user(token) IN
       IF current_user = <<>>
       THEN Answer(Unauthorized("return_loan", token))
       ELSE LET loan == OwnLoan(loan_id, current_user[1].id) IN
            IF loan = <<>>
            THEN Answer(Response("return_loan", current_user[1].id, loan_id,
                                 400, "Loan not found", <<>>, ""))
            ELSE LET book == BookById(loan[1].book_id) IN
                 IF book = <<>>
                 THEN Answer(Response("return_loan", current_user[1].id, loan_id,
                                      500, "AttributeError", <<>>, ""))
                 ELSE Stage([op |-> "return_loan",
                             current_user |-> current_user[1].id,
                             loan |-> loan[1].id,
                             return_date |-> Changed(loan[1].return_date, Date(today)),
                             book |-> book[1].id,
                             available |-> Changed(book[1].available, TRUE),
                             saw |-> IF loan[1].return_date = None
                                     THEN "open" ELSE "returned"])
    /\ UNCHANGED <<users, books, loans, today>>

\* ---- db.commit() and what follows it (lines 106-108, 131-133, 148-149) ----
\* The flush writes the session's new and changed objects in one
\* transaction: an INSERT takes the next auto-increment id, an UPDATE is
\* issued by primary key for exactly the attributes with a pending change
\* (see Changed).  A constraint violation raises IntegrityError and nothing
\* is written.
\* Variant of FlushUser: the unique index on username (line 25) is missing.
FlushUser_NoUnique(db_user) == <<[db_user EXCEPT !.id = NextId(users)]>>

FlushUser(db_user) ==
    IF \E i \in DOMAIN users : users[i].username = db_user.username
    THEN <<>>
    ELSE <<[db_user EXCEPT !.id = NextId(users)]>>

FlushLoan(db_loan) ==
    IF db_loan.user_id \notin DOMAIN users \/ db_loan.book_id \notin DOMAIN books
    THEN <<>>
    ELSE <<[db_loan EXCEPT !.id = NextId(loans)]>>

\* Variant of SetAvailable: the flag is never written.
SetAvailable_Skip(book_id, available) == books

\* Variant of SetAvailable: the book's row is deleted, not updated.
SetAvailable_DeleteRow(book_id, available) ==
    IF available # <<>> /\ book_id \in DOMAIN books
    THEN SubSeq(books, 1, book_id - 1)
    ELSE books

SetAvailable(book_id, available) ==
    IF available # <<>> /\ book_id \in DOMAIN books
    THEN [books EXCEPT ![book_id].available = available[1]]
    ELSE books

\* Variant of SetReturnDate: the UPDATE has no WHERE clause on the id.
SetReturnDate_All(loan_id, return_date) ==
    IF return_date # <<>>
    THEN [l \in DOMAIN loans |-> [loans[l] EXCEPT !.return_date = return_date[1]]]
    ELSE loans

\* Variant of SetReturnDate: the UPDATE of the loan is lost.
SetReturnDate_Skip(loan_id, return_date) == loans

SetReturnDate(loan_id, return_date) ==
    IF return_date # <<>> /\ loan_id \in DOMAIN loans
    THEN [loans EXCEPT ![loan_id].return_date = return_date[1]]
    ELSE loans

\* One flush and commit, of whichever handler the i-th request in flight is
\* in.  The create_loan arm is the code of lines 131-133; no run of the
\* service reaches it, because line 128 raises first (see LoanCtor).
commit(i) ==
    /\ i \in DOMAIN txn
    /\ LET t == txn[i] IN
       CASE t.op = "register" ->
              LET row == FlushUser(t.db_user) IN
              /\ IF row = <<>>
                 THEN /\ users' = users
                      /\ Reply(i, Response("register", 0, t.db_user.username,
                                           500, "IntegrityError", <<>>, ""))
                 ELSE /\ users' = Insert(users, row[1])
                      /\ Reply(i, Response("register", 0, t.db_user.username, 200, "", row, ""))
              /\ UNCHANGED <<books, loans>>
         [] t.op = "create_loan" ->
              LET row == FlushLoan(t.db_loan) IN
              /\ IF row = <<>>
                 THEN /\ UNCHANGED <<books, loans>>
                      /\ Reply(i, Response("create_loan", t.current_user, t.book,
                                           500, "IntegrityError", <<>>, t.saw))
                 ELSE /\ loans' = Insert(loans, row[1])
                      /\ books' = SetAvailable(t.book, t.available)
                      /\ Reply(i, Response("create_loan", t.current_user, t.book,
                                           200, "", row, t.saw))
              /\ users' = users
         [] t.op = "return_loan" ->
              /\ loans' = SetReturnDate(t.loan, t.return_date)
              /\ books' = SetAvailable(t.book, t.available)
              /\ Reply(i, Response("return_loan", t.current_user, t.loan, 200, "",
                                   <<loans'[t.loan]>>, t.saw))
              /\ users' = users
    /\ today' = today

\* ---- the calendar ----
\* datetime.date.today() (lines 128, 145) moves on between requests.  A
\* request lasts far less than a day: the date does not change while one is
\* in flight.
Tick == /\ today < MaxDay
        /\ txn = <<>>
        /\ today' = today + 1
        /\ resp' = NoResponse
        /\ UNCHANGED <<users, books, loans, txn>>

\* ---- request inputs ----
BookIdInputs == 1..(NumBooks + 1)
LoanIdInputs == 1..(MaxSeedLoans + 1)
UserIdInputs == 1..Cardinality(Usernames)
\* <<skip, limit>>: the defaults of lines 119 and 136, and a page of one
\* row that leaves rows out on both sides
Pages == {<<0, 10>>, <<1, 1>>}

\* Request bodies of POST /loans: the user id in the body may agree with the
\* caller or differ, the return date may be absent or present.
LoanBodies == {LoanBase(u, b, SeedDate, IF u = 1 THEN None ELSE SeedDate) :
                  u \in UserIdInputs, b \in BookIdInputs}

Next ==
    \/ \E u \in Usernames, p \in Passwords, salt \in Salts : register(u, p, salt)
    \/ \E u \in Usernames, p \in Passwords : login(u, p)
    \/ \E page \in Pages : read_books(page[1], page[2])
    \/ \E tok \in Tokens, page \in Pages : read_loans(tok, page[1], page[2])
    \/ \E tok \in Tokens, loan \in LoanBodies : create_loan(tok, loan)
    \/ \E tok \in Tokens, l \in LoanIdInputs : return_loan(tok, l)
    \/ \E i \in 1..Cardinality(Sessions) : commit(i)
    \/ Tick

Spec == Init /\ [][Next]_vars

\* ======================= properties ===================================

\* C1: in every reachable state, a book's availability flag is true if and
\* only if no loan with a null return date references the book.
C1_AvailableIffNoOpenLoan ==
    \A b \in DOMAIN books : books[b].available <=> (OpenLoans(b) = {})

\* C2: in every reachable state each book is referenced by at most one open
\* loan, also after an already-returned loan is returned again while the
\* book is on loan to someone else.
C2_AtMostOneOpenLoan ==
    \A b \in DOMAIN books : Cardinality(OpenLoans(b)) <= 1

\* A return has just succeeded on a loan that is older than the open loan
\* another user holds on the same book: the returned loan had been returned
\* before and the book borrowed again.
C2_Witness ==
    /\ resp.op = "return_loan" /\ resp.status = 200
    /\ \E l \in OpenLoans(loans[resp.arg].book_id) :
          l > resp.arg /\ loans[l].user_id # resp.caller

\* C3: of two create-loan requests for the same available book that run
\* concurrently, exactly one succeeds and the other fails with
\* BookUnavailable, and the book ends with exactly one open loan.  The two
\* requests are two that finish one right after the other, the first having
\* read the book as available.
BookUnavailable == <<400, "Book not available">>

C3_ConcurrentCreateLoanOneWins ==
    [][(/\ resp.op = "create_loan" /\ resp.saw = "available"
        /\ resp' # resp
        /\ resp'.op = "create_loan" /\ resp'.saw # ""
        /\ resp'.arg = resp.arg)
       => /\ \/ resp.status = 200 /\ <<resp'.status, resp'.detail>> = BookUnavailable
             \/ <<resp.status, resp.detail>> = BookUnavailable /\ resp'.status = 200
          /\ Cardinality({l \in DOMAIN loans' :
                             /\ loans'[l].book_id = resp.arg
                             /\ loans'[l].return_date = None}) = 1]_vars

\* C4: a create-loan request by an authenticated user for a book that exists
\* and is available succeeds: it returns a loan with a newly assigned id,
\* that loan is stored, and the book is unavailable afterwards.  (Stated for
\* a request that finds the book still available when it ends.)
C4_CreateLoanSucceeds ==
    [][(/\ resp' # resp
        /\ resp'.op = "create_loan" /\ resp'.saw = "available"
        /\ books[resp'.arg].available)
       => /\ resp'.status = 200
          /\ Len(resp'.body) = 1
          /\ resp'.body[1].id \notin DOMAIN loans
          /\ resp'.body[1].id \in DOMAIN loans'
          /\ loans'[resp'.body[1].id] = resp'.body[1]
          /\ books'[resp'.arg].available = FALSE]_vars

\* C6: a create-loan request (of an authenticated caller) for a book id that
\* does not exist, or for a book whose flag is false, fails with
\* BookUnavailable (400) and leaves users, books and loans unchanged.
C6_UnavailableBookRejected ==
    [][(/\ resp' # resp
        /\ resp'.op = "create_loan" /\ resp'.saw = "unavailable")
       => /\ <<resp'.status, resp'.detail>> = BookUnavailable
          /\ resp'.body = <<>>
          /\ UNCHANGED <<users, books, loans>>]_vars

\* A create-loan for a book that exists and is on loan was just refused.
C6_Witness ==
    /\ resp.op = "create_loan"
    /\ <<resp.status, resp.detail>> = BookUnavailable
    /\ resp.arg \in DOMAIN books
    /\ ~books[resp.arg].available

\* C7: after a return-loan request succeeds for loan L, L's return date is
\* non-null (the current date), the book L references is available, and the
\* result is the updated loan record.
C7_ReturnLoanEffect ==
    (resp.op = "return_loan" /\ resp.status = 200) =>
        /\ resp.arg \in DOMAIN loans
        /\ loans[resp.arg].return_date # None
        /\ loans[resp.arg].return_date = Date(today)
        /\ books[loans[resp.arg].book_id].available
        /\ resp.body = <<loans[resp.arg]>>

\* A loan was just returned by its borrower, stamped with a day later than
\* any date the store started with.
C7_Witness ==
    /\ resp.op = "return_loan" /\ resp.status = 200
    /\ loans[resp.arg].user_id = resp.caller
    /\ loans[resp.arg].return_date = Date(today)
    /\ Date(today) # SeedDate

\* C8: a loan's return date is set exactly once: once it is non-null, no
\* later request changes it.
C8_ReturnDateSetOnce ==
    [][\A l \in DOMAIN loans :
         loans[l].return_date # None =>
            /\ l \in DOMAIN loans'
            /\ loans'[l].return_date = loans[l].return_date]_vars

\* C9: a return-loan request (of an authenticated caller) whose loan id
\* matches no loan, or a loan of another borrower, fails with LoanNotFound
\* (400) and changes no return date and no availability flag.
LoanNotFound == <<400, "Loan not found">>

C9_ForeignLoanRejected ==
    [][(/\ resp' # resp
        /\ resp'.op = "return_loan"
        /\ resp'.caller \in DOMAIN users
        /\ \/ resp'.arg \notin DOMAIN loans
           \/ loans[resp'.arg].user_id # resp'.caller)
       => /\ <<resp'.status, resp'.detail>> = LoanNotFound
          /\ resp'.body = <<>>
          /\ UNCHANGED <<loans, books>>]_vars

\* A return of another borrower's loan was just refused.
C9_Witness ==
    /\ resp.op = "return_loan"
    /\ <<resp.status, resp.detail>> = LoanNotFound
    /\ resp.arg \in DOMAIN loans
    /\ resp.caller \in DOMAIN users
    /\ loans[resp.arg].user_id # resp.caller

\* C10: every loan record list-loans returns has the caller's user id as
\* its borrower, for every caller and every skip/limit.
C10_OnlyOwnLoansListed ==
    (resp.op = "read_loans" /\ resp.status = 200) =>
        /\ resp.caller \in DOMAIN users
        /\ \A i \in DOMAIN resp.body :
              /\ resp.body[i].user_id = resp.caller
              /\ resp.body[i] = loans[resp.body[i].id]

\* A non-empty listing was just returned while the store also holds a loan
\* of another borrower.
C10_Witness ==
    /\ resp.op = "read_loans" /\ resp.status = 200
    /\ resp.body # <<>>
    /\ \E l \in DOMAIN loans : loans[l].user_id # resp.caller

\* C11: a register request for a username that is already registered (when
\* the request looks it up, line 100) fails with UsernameTaken (400) and
\* creates no user record; there is at most one user per username.  A
\* register request shows in a step either as its 400 reply, with no request
\* leaving or joining those in flight, or as one more request in flight.
UsernameTaken == <<400, "Username already registered">>

UniqueUsernames ==
    \A i, j \in DOMAIN users : users[i].username = users[j].username => i = j

C11_RegisteredUsernameRejected ==
    [][/\ (/\ Len(txn') = Len(txn) + 1
           /\ txn'[Len(txn')].op = "register")
          => get_user(txn'[Len(txn')].db_user.username) = <<>>
       /\ (/\ resp' # resp /\ resp'.op = "register"
           /\ Len(txn') = Len(txn)
           /\ get_user(resp'.arg) # <<>>)
          => /\ <<resp'.status, resp'.detail>> = UsernameTaken
             /\ resp'.body = <<>>
             /\ users' = users
       /\ UniqueUsernames']_vars

\* A registration of a stored username was just refused.
C11_Witness ==
    /\ resp.op = "register"
    /\ <<resp.status, resp.detail>> = UsernameTaken
    /\ get_user(resp.arg) # <<>>

\* C12: the bearer credential returned by a successful token request for
\* user u resolves to u when presented on an authenticated request.
C12_IssuedTokenResolves ==
    (resp.op = "login" /\ resp.status = 200) =>
        get_current_user(resp.body[1].access_token) = <<users[resp.caller]>>

\* C13: in create_loan and in return_loan the write to the loan and the
\* write to the book's flag commit together or not at all.  Every step that
\* changes the loans or the books is a successful create_loan or
\* return_loan and leaves both writes applied in the store; a request that
\* fails changes neither table.
C13_LoanAndBookCommitTogether ==
    [][/\ (loans' # loans \/ books' # books)
          => /\ resp'.status = 200
             /\ \/ /\ resp'.op = "return_loan"
                   /\ loans'[resp'.arg].return_date = Date(today)
                   /\ books'[loans'[resp'.arg].book_id].available = TRUE
                \/ /\ resp'.op = "create_loan"
                   /\ Len(loans') = Len(loans) + 1
                   /\ loans'[Len(loans')].book_id = resp'.arg
                   /\ books'[resp'.arg].available = FALSE
       /\ (resp' # resp /\ resp'.status \notin {0, 200})
          => UNCHANGED <<loans, books>>]_vars

\* A return of a loan that was open has just committed: the loan carries
\* the date and the book, unavailable until then, is available.
C13_Witness ==
    /\ resp.op = "return_loan" /\ resp.status = 200 /\ resp.saw = "open"
    /\ loans[resp.arg].return_date = Date(today)
    /\ books[loans[resp.arg].book_id].available

\* C14: a book's availability flag changes only in a successful create_loan
\* (to false) and a successful return_loan (to true); every other request
\* and every failing request leaves every book unchanged, and no request
\* adds or removes a book.
C14_AvailabilityFrame ==
    [][/\ DOMAIN books' = DOMAIN books
       /\ \A b \in DOMAIN books :
             /\ [books'[b] EXCEPT !.available = books[b].available] = books[b]
             /\ books'[b].available # books[b].available
                => /\ resp'.status = 200
                   /\ \/ /\ resp'.op = "create_loan" /\ resp'.arg = b
                         /\ books'[b].available = FALSE
                      \/ /\ resp'.op = "return_loan"
                         /\ loans[resp'.arg].book_id = b
                         /\ books'[b].available = TRUE]_vars

\* A return has just succeeded of the only loan of its book, read as open:
\* the book's flag was false at start-up and a successful return has set it.
C14_Witness ==
    /\ resp.op = "return_loan" /\ resp.status = 200 /\ resp.saw = "open"
    /\ \A l \in DOMAIN loans :
          loans[l].book_id = loans[resp.arg].book_id => l = resp.arg
    /\ books[loans[resp.arg].book_id].available
    /\ Len(books) = NumBooks

\* C15: a user record is immutable after registration: no later request
\* changes its id, username or password hash, or deletes it.
C15_UsersImmutable ==
    [][\A u \in DOMAIN users :
          /\ u \in DOMAIN users'
          /\ users'[u] = users[u]]_vars

\* A second user has just registered; the first user's record is still in
\* the store.
C15_Witness ==
    /\ resp.op = "register" /\ resp.status = 200
    /\ resp.body[1].id > 1
    /\ \E u \in DOMAIN users : u < resp.body[1].id /\ users[u].id = u

\* C17: a return_loan by the owning borrower on a loan whose return date is
\* already non-null succeeds, re-stamps the return date to the current date
\* and sets the book's flag to true.
C17_ReReturnRestamps ==
    [][(/\ resp' # resp
        /\ resp'.op = "return_loan"
        /\ resp'.caller \in DOMAIN users
        /\ resp'.arg \in DOMAIN loans
        /\ loans[resp'.arg].user_id = resp'.caller
        /\ loans[resp'.arg].return_date # None)
       => /\ resp'.status = 200
          /\ loans'[resp'.arg].return_date = Date(today)
          /\ books'[loans'[resp'.arg].book_id].available = TRUE
          /\ resp'.body = <<loans'[resp'.arg]>>]_vars

\* A loan that the request read as already returned has just been returned
\* again, on a later day than the one it carried.
C17_Witness ==
    /\ resp.op = "return_loan" /\ resp.status = 200 /\ resp.saw = "returned"
    /\ loans[resp.arg].return_date = Date(today)
    /\ today > SeedDate[1]

\* C18: of two register requests for the same unused username that both
\* look the name up before either commits, at most one stores a user; the
\* other fails and stores nothing.  The loser is a register request that
\* reaches its commit when the name is already stored.
C18_ConcurrentRegisterOneWins ==
    [][/\ (/\ resp'.op = "register"
           /\ Len(txn') < Len(txn)
           /\ get_user(resp'.arg) # <<>>)
          => /\ resp'.status \notin {0, 200}
             /\ resp'.body = <<>>
             /\ users' = users
       /\ UniqueUsernames']_vars

\* A registration was stopped at its commit because a concurrent one had
\* stored the username first.
C18_Witness ==
    /\ resp.op = "register" /\ resp.status = 500
    /\ resp.detail = "IntegrityError"
    /\ Cardinality({u \in DOMAIN users : users[u].username = resp.arg}) = 1

\* C19: a create_loan, read_loans or return_loan request whose bearer
\* credential does not resolve to a registered user is rejected with 401
\* before the handler body runs, and leaves every user, book and loan
\* unchanged.  A request of these three that is not answered 401 runs as a
\* registered user; one that is answered 401 presented a token that names
\* no user, staged nothing and changed nothing.
Unauthenticated == <<401, "Invalid authentication credentials">>

C19_UnresolvedTokenRejected ==
    [][/\ (resp' # resp /\ resp'.op \in {"create_loan", "read_loans", "return_loan"})
          => IF resp'.caller \in DOMAIN users
             THEN resp'.status # 401
             ELSE /\ <<resp'.status, resp'.detail>> = Unauthenticated
                  /\ get_user(resp'.arg) = <<>>
                  /\ resp'.body = <<>>
                  /\ UNCHANGED <<users, books, loans, txn>>
       /\ (/\ Len(txn') = Len(txn) + 1
           /\ txn'[Len(txn')].op # "register")
          => txn'[Len(txn')].current_user \in DOMAIN users]_vars

\* A request was just refused with 401 although the store holds users: its
\* token named none of them.
C19_Witness ==
    /\ resp.op \in {"create_loan", "read_loans", "return_loan"}
    /\ <<resp.status, resp.detail>> = Unauthenticated
    /\ users # <<>>
    /\ get_user(resp.arg) = <<>>

====
